---- MODULE Spec2Model ----
(***************************************************************************)
(* Power of Attorney Tracker (src/main.py): the powers_of_attorney table,  *)
(* the HTTP handlers create_power / get_powers / delete_power /            *)
(* manual_check_expiring, and the expiry scan check_expiring_powers run by *)
(* the cron job and by the manual trigger on one asyncio event loop.       *)
(*                                                                         *)
(* Atomicity follows the event loop: a coroutine runs without interruption *)
(* until it awaits.  The handlers create_power, get_powers and             *)
(* delete_power never await (psycopg2 calls block), so each is one step.   *)
(* check_expiring_powers awaits only inside send_telegram_notification, so *)
(* a scan is cut into steps at each dispatch: everything from the return   *)
(* of one dispatch to the start of the next is one step.                   *)
(***************************************************************************)
EXTENDS Integers, Sequences, FiniteSets, Bags, TLC

(* ------------------------------ bounds -------------------------------- *)
\* number of rows ever inserted (values handed out by the SERIAL sequence)
MaxId == 2
\* number of midnights that pass during a run
MaxDays == 1
\* number of scan ticks started during a run
MaxTicks == 2

(* ------------------------- program constants -------------------------- *)
NOTIFICATION_DAYS == <<7, 3, 1>>
TELEGRAM_CHAT_ID == "-5140897831"

\* the value None / SQL NULL
None == "None"

(* ------------------------------ calendar ------------------------------ *)
\* datetime.date as <<year, month, day>>
IsLeap(y) == (y % 4 = 0) /\ ((y % 100 # 0) \/ (y % 400 = 0))

DaysInMonth(y, m) ==
    IF m = 2 THEN (IF IsLeap(y) THEN 29 ELSE 28)
    ELSE IF m \in {4, 6, 9, 11} THEN 30 ELSE 31

RECURSIVE DaysBeforeMonth(_, _)
DaysBeforeMonth(y, m) ==
    IF m = 1 THEN 0 ELSE DaysBeforeMonth(y, m - 1) + DaysInMonth(y, m - 1)

DaysBeforeYear(y) ==
    (y - 1) * 365 + ((y - 1) \div 4) - ((y - 1) \div 100) + ((y - 1) \div 400)

\* date.toordinal()
ToOrdinal(dt) == DaysBeforeYear(dt[1]) + DaysBeforeMonth(dt[1], dt[2]) + dt[3]

\* (a - b).days for two dates; also PostgreSQL's date - date (an integer)
DateDiff(a, b) == ToOrdinal(a) - ToOrdinal(b)

\* the date one day after dt (the wall clock passing midnight)
Tomorrow(dt) ==
    IF dt[3] < DaysInMonth(dt[1], dt[2]) THEN <<dt[1], dt[2], dt[3] + 1>>
    ELSE IF dt[2] < 12 THEN <<dt[1], dt[2] + 1, 1>>
    ELSE <<dt[1] + 1, 1, 1>>

(* ------------------------ date strings -------------------------------- *)
\* a string is a sequence of one-character strings
Digits == <<"0", "1", "2", "3", "4", "5", "6", "7", "8", "9">>

IsDigit(c) == \E i \in 1..10 : Digits[i] = c

DigitVal(c) == (CHOOSE i \in 1..10 : Digits[i] = c) - 1

RECURSIVE Number(_)
Number(s) ==
    IF s = << >> THEN 0
    ELSE 10 * Number(SubSeq(s, 1, Len(s) - 1)) + DigitVal(s[Len(s)])

\* _strptime's regex for %Y: \d\d\d\d
MatchesY(s) == Len(s) = 4 /\ \A i \in 1..4 : IsDigit(s[i])

\* _strptime's regex for %m: 1[0-2]|0[1-9]|[1-9]
MatchesM(s) ==
    \/ Len(s) = 2 /\ s[1] = "1" /\ s[2] \in {"0", "1", "2"}
    \/ Len(s) = 2 /\ s[1] = "0" /\ IsDigit(s[2]) /\ s[2] # "0"
    \/ Len(s) = 1 /\ IsDigit(s[1]) /\ s[1] # "0"

\* _strptime's regex for %d: 3[0-1]|[1-2]\d|0[1-9]|[1-9]| [1-9]
MatchesD(s) ==
    \/ Len(s) = 2 /\ s[1] = "3" /\ s[2] \in {"0", "1"}
    \/ Len(s) = 2 /\ s[1] \in {"1", "2"} /\ IsDigit(s[2])
    \/ Len(s) = 2 /\ s[1] = "0" /\ IsDigit(s[2]) /\ s[2] # "0"
    \/ Len(s) = 1 /\ IsDigit(s[1]) /\ s[1] # "0"
    \/ Len(s) = 2 /\ s[1] = " " /\ IsDigit(s[2]) /\ s[2] # "0"

\* the digits of a field, a leading blank dropped (int() of the group)
FieldNumber(s) == IF s[1] = " " THEN Number(Tail(s)) ELSE Number(s)

\* the ways s splits as Y "-" M "-" D with each part matching its directive
Splits(s) ==
    { p \in (1..Len(s)) \X (1..Len(s)) :
        /\ p[1] < p[2]
        /\ s[p[1]] = "-" /\ s[p[2]] = "-"
        /\ p[1] > 1 /\ p[2] > p[1] + 1 /\ p[2] < Len(s)
        /\ MatchesY(SubSeq(s, 1, p[1] - 1))
        /\ MatchesM(SubSeq(s, p[1] + 1, p[2] - 1))
        /\ MatchesD(SubSeq(s, p[2] + 1, Len(s))) }

\* the outcome of a parse that raised ValueError (no date)
ValueError == << >>

\* datetime.strptime(s, "%Y-%m-%d").date(): a date, or ValueError when the
\* string does not match the format or names no calendar day
Strptime(s) ==
    IF Splits(s) = {} THEN ValueError
    ELSE LET p == CHOOSE q \in Splits(s) : TRUE
             y == Number(SubSeq(s, 1, p[1] - 1))
             m == FieldNumber(SubSeq(s, p[1] + 1, p[2] - 1))
             d == FieldNumber(SubSeq(s, p[2] + 1, Len(s)))
         IN  IF y >= 1 /\ d <= DaysInMonth(y, m) THEN <<y, m, d>>
             ELSE ValueError

RECURSIVE Pad(_, _)
\* n in decimal, zero-padded to w characters
Pad(n, w) == IF w = 0 THEN << >> ELSE Pad(n \div 10, w - 1) \o <<Digits[(n % 10) + 1]>>

\* date.isoformat(): YYYY-MM-DD
IsoFormat(dt) == Pad(dt[1], 4) \o <<"-">> \o Pad(dt[2], 2) \o <<"-">> \o Pad(dt[3], 2)

\* PostgreSQL reading the text of a DATE parameter (ISO input)
PgDate(s) == Strptime(s)

(* ------------------------------ state --------------------------------- *)
VARIABLES
    DATABASE_URL,         \* os.getenv("DATABASE_URL"): a URL, or None
    TELEGRAM_BOT_TOKEN,   \* os.getenv("TELEGRAM_BOT_TOKEN", ""): TRUE when non-empty
    today,                \* the calendar date (date.today(), CURRENT_DATE)
    powers_of_attorney,   \* the table: a set of rows, one per id
    id_seq,               \* last value of the SERIAL sequence behind id
    scan,                 \* per trigger, the running check_expiring_powers
    ticks,                \* scan ticks started so far
    cron_day,             \* the day the cron trigger last fired, if any
    telegram,             \* messages the Telegram API accepted (a bag)
    response,             \* what the last step returned to its caller, if anything
    table_exists,         \* whether the database holds the table powers_of_attorney
    init_runs,            \* calls of init_database so far (import, startup event)
    failures              \* dispatches that returned False: the row's id and the day

vars == <<DATABASE_URL, TELEGRAM_BOT_TOKEN, today, powers_of_attorney, id_seq,
          scan, ticks, cron_day, telegram, response, table_exists, init_runs,
          failures>>

\* the cron job (start_scheduler) and the GET /api/check-expiring handler
Triggers == {"scheduled", "manual"}

\* the day the run starts, and the inputs the requests draw from
StartDate == <<2025, 2, 22>>
FullNames == {"Ivanov"}
PoaTypes == {"general"}
\* end_date strings submitted while scans run
EndDateInputs ==
    { <<"2", "0", "2", "5", "-", "0", "3", "-", "0", "1">>,   \* StartDate + 7
      <<"2", "0", "2", "5", "-", "0", "2", "-", "2", "4">>,   \* StartDate + 2
      <<"0", "1", ".", "0", "3", ".", "2", "0", "2", "5">> }  \* another format
\* end_date strings submitted to the record store on its own
StoreEndDateInputs ==
    { <<"2", "0", "2", "5", "-", "0", "3", "-", "0", "1">>,   \* StartDate + 7
      <<"2", "0", "2", "5", "-", "3", "-", "1">>,             \* the same day, unpadded
      <<"2", "0", "2", "5", "-", "0", "2", "-", "2", "3">>,   \* StartDate + 1
      <<"2", "0", "2", "5", "-", "0", "2", "-", "2", "1">>,   \* StartDate - 1
      <<"2", "0", "2", "5", "-", "0", "2", "-", "3", "0">>,   \* no such day
      <<"2", "0", "2", "5", "-", "0", "3", "-", "0", "1", "7">>,  \* a trailing digit
      <<"0", "1", ".", "0", "3", ".", "2", "0", "2", "5">> }  \* another format

NoResponse == [op |-> "none"]

\* how get_db_connection ends: a connection, or an exception (DATABASE_URL
\* not set, psycopg2.connect raising)
ConnectOutcomes ==
    IF DATABASE_URL = None THEN {"no_connection"} ELSE {"ok", "no_connection"}

\* how a sequence of database calls on the table ends: done and committed,
\* no connection, the statement raising because the table does not exist, or
\* a statement / the commit raising for another reason (nothing committed)
DbOutcomes ==
    IF DATABASE_URL = None THEN {"no_connection"}
    ELSE IF ~table_exists THEN {"no_connection", "undefined_table"}
    ELSE {"ok", "no_connection", "statement_fails"}

\* what send_telegram_notification returns once the Telegram API has answered
\* (status 200 or not) or the request has raised
SendOutcomes == {TRUE, FALSE}

\* dict.get(key, default): the default stands in for a missing key only; a
\* key that is there with the value None yields None
DictGet(d, key, default) == IF key \in DOMAIN d THEN d[key] ELSE default

IdleScan == [pc |-> "idle", powers |-> << >>, i |-> 0, today |-> StartDate,
             attempts |-> << >>]

Init ==
    /\ DATABASE_URL \in {"postgresql://db", None}
    /\ TELEGRAM_BOT_TOKEN \in BOOLEAN
    /\ today = StartDate
    /\ powers_of_attorney = {}
    /\ id_seq = 0
    /\ scan = [t \in Triggers |-> IdleScan]
    /\ ticks = 0
    /\ cron_day = << >>
    /\ telegram = EmptyBag
    /\ response = NoResponse
    /\ table_exists \in BOOLEAN
    /\ init_runs = 0
    /\ failures = {}

(* ------------------------------ startup ------------------------------- *)
\* what get_db_connection returns when it does not raise: one psycopg2
\* connection object (line 209)
Connection == [type |-> "connection"]

\* the tuple assignment `conn, db_type = value`: it goes through for a
\* sequence of two items and raises TypeError for anything else
UnpacksToPair(value) == value.type = "tuple" /\ value.len = 2

\* lines 211-269: one call of init_database; every exception is caught and
\* logged (line 267).  The call made while the module is imported (line 272)
\* and the one of the startup event (line 1064) come before any request.
init_database ==
    /\ init_runs < 2
    /\ init_runs' = init_runs + 1
    /\ \E c \in ConnectOutcomes :
         /\ response' = [op |-> "init_database", connected |-> c = "ok"]
         /\ IF c = "ok" /\ UnpacksToPair(Connection)
            THEN \* lines 218-263: CREATE TABLE when the table is not there
                 table_exists' = TRUE
            ELSE UNCHANGED table_exists
    /\ UNCHANGED <<DATABASE_URL, TELEGRAM_BOT_TOKEN, today, powers_of_attorney,
                   id_seq, scan, ticks, cron_day, telegram, failures>>

\* the application serves requests and runs jobs once startup_event is over
Serving == init_runs = 2

(* ---------------------------- health_check ----------------------------- *)
\* lines 722-742: GET /api/health
health_check ==
    /\ Serving
    /\ \E c \in ConnectOutcomes \cup
                 (IF DATABASE_URL = None THEN {} ELSE {"statement_fails"}) :
         LET db_status == IF c = "ok" THEN "healthy" ELSE "error" IN
         response' = [op |-> "health_check", http |-> 200, status |-> "healthy",
                      database |-> db_status]
    /\ UNCHANGED <<DATABASE_URL, TELEGRAM_BOT_TOKEN, today, powers_of_attorney,
                   id_seq, scan, ticks, cron_day, telegram, table_exists,
                   init_runs, failures>>

(* ------------------------------ SQL ----------------------------------- *)
\* INSERT INTO powers_of_attorney (full_name, poa_type, start_date, end_date)
\* with the column defaults of the CREATE TABLE
InsertRow(id, full_name, poa_type, start_date, end_date) ==
    [ id |-> id,
      full_name |-> full_name,
      poa_type |-> poa_type,
      start_date |-> PgDate(start_date),
      end_date |-> PgDate(end_date),
      telegram_chat_id |-> TELEGRAM_CHAT_ID,
      notification_sent |-> FALSE,
      created_at |-> today ]

\* ORDER BY end_date ASC: every arrangement of the rows with end_date
\* non-decreasing; SQL leaves the order of rows with equal keys open
OrderByEndDate(rows) ==
    { s \in [1..Cardinality(rows) -> rows] :
        /\ \A a, b \in 1..Cardinality(rows) : a # b => s[a] # s[b]
        /\ \A a, b \in 1..Cardinality(rows) :
              a < b => ToOrdinal(s[a].end_date) <= ToOrdinal(s[b].end_date) }

\* a DELETE that lost its WHERE clause
DeleteWhereId_All(table, power_id) == {}

\* DELETE FROM powers_of_attorney WHERE id = power_id
DeleteWhereId(table, power_id) == { r \in table : r.id # power_id }

\* cursor.rowcount of that DELETE
DeleteRowcount(table, power_id) == Cardinality({ r \in table : r.id = power_id })

\* an UPDATE that flips the flag instead of setting it
UpdateNotificationSent_Toggle(table, power_id) ==
    { IF r.id = power_id THEN [r EXCEPT !.notification_sent = ~@] ELSE r :
        r \in table }

\* an UPDATE that also rewrites another column of the row
UpdateNotificationSent_Rewrite(table, power_id) ==
    { IF r.id = power_id
      THEN [r EXCEPT !.notification_sent = TRUE, !.full_name = ""] ELSE r :
        r \in table }

\* an UPDATE that lost its WHERE clause
UpdateNotificationSent_AllRows(table, power_id) ==
    { [r EXCEPT !.notification_sent = TRUE] : r \in table }

\* UPDATE powers_of_attorney SET notification_sent = TRUE WHERE id = power_id
UpdateNotificationSent(table, power_id) ==
    { IF r.id = power_id THEN [r EXCEPT !.notification_sent = TRUE] ELSE r :
        r \in table }

\* WHERE end_date >= CURRENT_DATE
SelectActive(table) == { r \in table : DateDiff(r.end_date, today) >= 0 }

(* --------------------------- create_power ------------------------------ *)
\* what POST /api/powers/ answers, with the end_date string it was sent;
\* id is the new row's id, 0 when no row was inserted
CreateResponse(status, id, end_date) ==
    [op |-> "create_power", status |-> status, id |-> id, end_date |-> end_date]

create_power(full_name, poa_type, end_date) ==
    LET end_date_obj == Strptime(end_date) IN
    /\ Serving
    /\ IF end_date_obj = ValueError
       THEN /\ response' = CreateResponse(400, 0, end_date)
            /\ UNCHANGED <<powers_of_attorney, id_seq>>
       ELSE /\ id_seq < MaxId
            /\ \E db \in DbOutcomes :
               CASE db = "ok" ->
                      /\ id_seq' = id_seq + 1
                      /\ powers_of_attorney' = powers_of_attorney \cup
                           { InsertRow(id_seq + 1, full_name, poa_type,
                                       IsoFormat(today), IsoFormat(end_date_obj)) }
                      /\ response' = CreateResponse(200, id_seq + 1, end_date)
                 [] db = "statement_fails" ->
                      \* nextval is not rolled back with the INSERT
                      /\ id_seq' = id_seq + 1
                      /\ response' = CreateResponse(500, 0, end_date)
                      /\ UNCHANGED powers_of_attorney
                 [] OTHER ->
                      /\ response' = CreateResponse(500, 0, end_date)
                      /\ UNCHANGED <<powers_of_attorney, id_seq>>
    /\ UNCHANGED <<DATABASE_URL, TELEGRAM_BOT_TOKEN, today, scan, ticks, cron_day,
                   telegram, table_exists, init_runs, failures>>

(* ---------------------------- get_powers ------------------------------- *)
\* the days_remaining column as psycopg2 hands it over: date - date is an
\* integer in PostgreSQL
DaysRemainingColumn(r) == [type |-> "int", value |-> DateDiff(r.end_date, today)]

\* a NULL column, None in Python
NoneValue == [type |-> "NoneType"]

\* a handler that falls back to 0 for anything but a positive integer
DaysRemainingOut_Clamped(days_rem) ==
    IF days_rem.type = "int" /\ days_rem.value > 0 THEN days_rem.value ELSE 0

\* lines 882-897: what the handler makes of the column
DaysRemainingOut(days_rem) ==
    IF days_rem # NoneValue
    THEN IF days_rem.type = "timedelta" THEN days_rem.days
         ELSE IF days_rem.type = "int" THEN days_rem.value
         ELSE 0
    ELSE 0

\* lines 860-899: one row of the answer
PowerDict(r) ==
    [ id |-> r.id,
      full_name |-> r.full_name,
      poa_type |-> r.poa_type,
      start_date |-> IsoFormat(r.start_date),
      end_date |-> IsoFormat(r.end_date),
      telegram_chat_id |-> r.telegram_chat_id,
      notification_sent |-> r.notification_sent,
      created_at |-> IsoFormat(r.created_at),
      days_remaining |-> DaysRemainingOut(DaysRemainingColumn(r)) ]

get_powers ==
    /\ Serving
    /\ \E db \in DbOutcomes :
         IF db = "ok"
         THEN \E powers \in OrderByEndDate(powers_of_attorney) :
                response' = [op |-> "get_powers", status |-> 200, error |-> FALSE,
                             result |-> [k \in 1..Len(powers) |-> PowerDict(powers[k])]]
         ELSE \* lines 907-928: the error object, answered with status 200
              response' = [op |-> "get_powers", status |-> 200, error |-> TRUE,
                           result |-> << >>]
    /\ UNCHANGED <<DATABASE_URL, TELEGRAM_BOT_TOKEN, today, powers_of_attorney,
                   id_seq, scan, ticks, cron_day, telegram, table_exists,
                   init_runs, failures>>

(* --------------------------- delete_power ------------------------------ *)
delete_power(power_id) ==
    /\ Serving
    /\ \E db \in DbOutcomes :
         IF db = "ok"
         THEN LET deleted == DeleteRowcount(powers_of_attorney, power_id) > 0 IN
              /\ powers_of_attorney' = DeleteWhereId(powers_of_attorney, power_id)
              /\ response' = [op |-> "delete_power", id |-> power_id,
                              status |-> IF deleted THEN 200 ELSE 404]
         ELSE /\ response' = [op |-> "delete_power", id |-> power_id, status |-> 500]
              /\ UNCHANGED powers_of_attorney
    /\ UNCHANGED <<DATABASE_URL, TELEGRAM_BOT_TOKEN, today, id_seq, scan, ticks,
                   cron_day, telegram, table_exists, init_runs, failures>>

(* ---------------------- send_telegram_notification --------------------- *)
\* the message of lines 110-117, with the row it is about
Message(power, days_left, chat_id) ==
    [ id |-> power.id, end_date |-> power.end_date, days_left |-> days_left,
      chat_id |-> chat_id ]

\* the Telegram API's log after a call that returned `sent`
Deliver(log, message, day, sent) ==
    IF sent THEN log (+) SetToBag({ [message |-> message, day |-> day] }) ELSE log

(* ------------------------ check_expiring_powers ------------------------ *)
\* a scan that notifies on any day at or below the largest threshold
InNotificationDays_AtMost(days_left) == days_left >= 0 /\ days_left <= 7

\* a scan that tries again on the day after each threshold
InNotificationDays_DayAfter(days_left) == days_left \in {7, 6, 3, 2, 1, 0}

\* line 108: days_left in NOTIFICATION_DAYS
InNotificationDays(days_left) ==
    \E k \in 1..Len(NOTIFICATION_DAYS) : NOTIFICATION_DAYS[k] = days_left

\* a loop that stops after its first dispatch
NextEligible_FirstOnly(powers, from, day) ==
    LET hits == { k \in 1..Len(powers) :
                    DateDiff(powers[k].end_date, day) \in {7, 3, 1} }
    IN  IF from > 1 \/ hits = {} THEN 0 ELSE CHOOSE k \in hits : \A h \in hits : k <= h

\* a loop that passes over the rows already marked as notified
NextEligible_Unsent(powers, from, day) ==
    LET hits == { k \in from..Len(powers) :
                    /\ DateDiff(powers[k].end_date, day) \in {7, 3, 1}
                    /\ ~powers[k].notification_sent }
    IN  IF hits = {} THEN 0 ELSE CHOOSE k \in hits : \A h \in hits : k <= h

\* lines 96-108: the index of the first row at or after `from` whose days_left
\* is a threshold, 0 when the loop runs off the end
NextEligible(powers, from, day) ==
    LET hits == { k \in from..Len(powers) :
                    InNotificationDays(DateDiff(powers[k].end_date, day)) }
    IN  IF hits = {} THEN 0 ELSE CHOOSE k \in hits : \A h \in hits : k <= h

\* a scan that marks the row whatever the dispatcher returned
MarkIfSent_Always(table, power_id, sent, db) ==
    IF db = "ok" THEN UpdateNotificationSent(table, power_id) ELSE table

\* a scan that marks the row when the dispatcher returned False
MarkIfSent_Unsent(table, power_id, sent, db) ==
    IF ~sent /\ db = "ok" THEN UpdateNotificationSent(table, power_id) ELSE table

\* lines 121-136: the table after send_telegram_notification returned `sent`
\* and the UPDATE's database calls ended as `db`
MarkIfSent(table, power_id, sent, db) ==
    IF sent /\ db = "ok" THEN UpdateNotificationSent(table, power_id) ELSE table

\* the dispatches among `attempts` that returned False, with the tick's day
FailedIn(attempts, day) ==
    { [id |-> attempts[k].id, day |-> day] :
        k \in { n \in 1..Len(attempts) : ~attempts[n].sent } }

\* a trigger that answers with an error when the tick's read failed or one
\* of its dispatches failed
TickReturn_Propagates(t, sc) ==
    [ op |-> "check_expiring_powers", trigger |-> t,
      status |-> IF t # "manual" THEN 0
                 ELSE IF sc.pc = "read_failed" \/ FailedIn(sc.attempts, sc.today) # {}
                 THEN 500 ELSE 200,
      read |-> IF sc.pc = "read_failed" THEN "failed" ELSE "ok",
      powers |-> sc.powers, today |-> sc.today, attempts |-> sc.attempts ]

\* what the step that ends a tick reports: whether its read of the active rows
\* went through (lines 65-87) or raised into the except of line 140, the rows
\* it read, the day it worked with and its dispatches in order; for the manual
\* trigger this step also answers GET /api/check-expiring (lines 1032-1038)
TickReturn(t, sc) ==
    [ op |-> "check_expiring_powers", trigger |-> t,
      status |-> IF t = "manual" THEN 200 ELSE 0,
      read |-> IF sc.pc = "read_failed" THEN "failed" ELSE "ok",
      powers |-> sc.powers, today |-> sc.today, attempts |-> sc.attempts ]

RECURSIVE FailAll(_, _, _, _)
\* lines 35-37: without a bot token send_telegram_notification returns False
\* at once, without awaiting, so the loop runs through every remaining
\* threshold row in the same step and marks none
FailAll(powers, from, day, attempts) ==
    LET j == NextEligible(powers, from, day) IN
    IF j = 0 THEN attempts
    ELSE FailAll(powers, j + 1, day,
                 Append(attempts,
                        [id |-> powers[j].id,
                         chat_id |-> DictGet(powers[j], "telegram_chat_id",
                                             TELEGRAM_CHAT_ID),
                         sent |-> FALSE, marked |-> FALSE]))

\* a scan that gives up the batch when the UPDATE of a row has failed
Continue_StopsOnWriteFailure(t, sc, from) ==
    LET n == Len(sc.attempts)
        stop == n > 0 /\ sc.attempts[n].sent /\ ~sc.attempts[n].marked
        j == IF stop THEN 0 ELSE NextEligible(sc.powers, from, sc.today)
    IN
    IF j # 0 /\ TELEGRAM_BOT_TOKEN
    THEN /\ scan' = [scan EXCEPT ![t] = [sc EXCEPT !.pc = "sending", !.i = j]]
         /\ response' = NoResponse
         /\ failures' = failures \cup FailedIn(sc.attempts, sc.today)
    ELSE LET done == IF stop THEN sc.attempts
                     ELSE FailAll(sc.powers, from, sc.today, sc.attempts) IN
         /\ scan' = [scan EXCEPT ![t] = IdleScan]
         /\ response' = TickReturn(t, [sc EXCEPT !.attempts = done])
         /\ failures' = failures \cup FailedIn(done, sc.today)

\* the scan continues from row `from`: awaits the next dispatch or returns
Continue(t, sc, from) ==
    LET j == NextEligible(sc.powers, from, sc.today) IN
    IF j # 0 /\ TELEGRAM_BOT_TOKEN
    THEN /\ scan' = [scan EXCEPT ![t] = [sc EXCEPT !.pc = "sending", !.i = j]]
         /\ response' = NoResponse
         /\ failures' = failures \cup FailedIn(sc.attempts, sc.today)
    ELSE LET done == FailAll(sc.powers, from, sc.today, sc.attempts) IN
         /\ scan' = [scan EXCEPT ![t] = IdleScan]
         /\ response' = TickReturn(t, [sc EXCEPT !.attempts = done])
         /\ failures' = failures \cup FailedIn(done, sc.today)

\* lines 61-121: the tick starts, reads the active rows and runs to its first
\* dispatch (or to its end)
ScanStart(t) ==
    /\ Serving
    /\ scan[t].pc = "idle"
    /\ ticks < MaxTicks
    /\ ticks' = ticks + 1
    \* CronTrigger(hour=11, minute=59) fires once a day; the manual trigger
    \* fires whenever it is requested
    /\ IF t = "scheduled"
       THEN cron_day # today /\ cron_day' = today
       ELSE UNCHANGED cron_day
    /\ \E db \in DbOutcomes :
         IF db = "ok"
         THEN \E powers \in OrderByEndDate(SelectActive(powers_of_attorney)) :
                Continue(t, [pc |-> "sending", powers |-> powers, i |-> 0,
                             today |-> today, attempts |-> << >>], 1)
         ELSE \* the except of line 140
              /\ scan' = [scan EXCEPT ![t] = IdleScan]
              /\ response' = TickReturn(t, [IdleScan EXCEPT !.pc = "read_failed",
                                                            !.today = today])
              /\ UNCHANGED failures
    /\ UNCHANGED <<DATABASE_URL, TELEGRAM_BOT_TOKEN, today, powers_of_attorney,
                   id_seq, telegram, table_exists, init_runs>>

\* lines 121-138: the dispatch returns, the row is marked on success, and the
\* loop goes on to the next dispatch (or to its end)
ScanSendReturn(t) ==
    /\ scan[t].pc = "sending"
    /\ LET sc == scan[t]
           power == sc.powers[sc.i]
           days_left == DateDiff(power.end_date, sc.today)
           chat_id == DictGet(power, "telegram_chat_id", TELEGRAM_CHAT_ID)
       IN  \E sent \in SendOutcomes, db \in DbOutcomes :
             /\ telegram' = Deliver(telegram, Message(power, days_left, chat_id),
                                    today, sent)
             /\ powers_of_attorney' = MarkIfSent(powers_of_attorney, power.id, sent, db)
             /\ Continue(t, [sc EXCEPT !.attempts =
                                Append(@, [id |-> power.id, chat_id |-> chat_id,
                                           sent |-> sent,
                                           marked |-> sent /\ db = "ok"])],
                         sc.i + 1)
    /\ UNCHANGED <<DATABASE_URL, TELEGRAM_BOT_TOKEN, today, id_seq, ticks, cron_day,
                   table_exists, init_runs>>

(* ------------------------------ the clock ------------------------------ *)
NextDay ==
    /\ DateDiff(today, StartDate) < MaxDays
    /\ today' = Tomorrow(today)
    /\ response' = NoResponse
    /\ UNCHANGED <<DATABASE_URL, TELEGRAM_BOT_TOKEN, powers_of_attorney, id_seq,
                   scan, ticks, cron_day, telegram, table_exists, init_runs,
                   failures>>

(* --------------------------- specification ----------------------------- *)
\* the whole service: the record store's handlers, both scan triggers, the clock
Next ==
    \/ init_database
    \/ health_check
    \/ \E full_name \in FullNames, poa_type \in PoaTypes, end_date \in EndDateInputs :
         create_power(full_name, poa_type, end_date)
    \/ get_powers
    \/ \E power_id \in 1..MaxId : delete_power(power_id)
    \/ \E t \in Triggers : ScanStart(t)
    \/ \E t \in Triggers : ScanSendReturn(t)
    \/ NextDay

Spec == Init /\ [][Next]_vars

\* the record store on its own (no scan is triggered), with a wider range of
\* submitted end_date strings
NextStore ==
    \/ init_database
    \/ health_check
    \/ \E full_name \in FullNames, poa_type \in PoaTypes,
          end_date \in StoreEndDateInputs :
         create_power(full_name, poa_type, end_date)
    \/ get_powers
    \/ \E power_id \in 1..MaxId : delete_power(power_id)
    \/ NextDay

SpecStore == Init /\ [][NextStore]_vars

\* a row that was in the table before the process started, written by another
\* client of the database: the column telegram_chat_id is nullable (line 238)
\* and this row holds NULL in it
LegacyRow ==
    [ id |-> 1,
      full_name |-> "Petrov",
      poa_type |-> "general",
      start_date |-> <<2025, 1, 15>>,
      end_date |-> <<2025, 3, 1>>,
      telegram_chat_id |-> None,
      notification_sent |-> FALSE,
      created_at |-> <<2025, 1, 15>> ]

\* the process starts against a database that already holds the table with
\* that row in it
InitLegacy ==
    /\ DATABASE_URL = "postgresql://db"
    /\ TELEGRAM_BOT_TOKEN \in BOOLEAN
    /\ today = StartDate
    /\ powers_of_attorney = {LegacyRow}
    /\ id_seq = 1
    /\ scan = [t \in Triggers |-> IdleScan]
    /\ ticks = 0
    /\ cron_day = << >>
    /\ telegram = EmptyBag
    /\ response = NoResponse
    /\ table_exists = TRUE
    /\ init_runs = 0
    /\ failures = {}

SpecLegacy == InitLegacy /\ [][Next]_vars

(* ------------------------------ claims --------------------------------- *)
\* the last step ended a scan tick; response holds what it read and dispatched
TickDone == response.op = "check_expiring_powers"

\* how many dispatches of the ended tick were for row id
AttemptsFor(id) ==
    Cardinality({ k \in 1..Len(response.attempts) : response.attempts[k].id = id })

\* C1: in one tick, with the day the tick works with, a row the tick read is
\* dispatched exactly once when end_date - today is 7, 3 or 1, and not at all
\* otherwise; nothing else is dispatched.
C1_ThresholdPolicy ==
    TickDone =>
      /\ \A k \in 1..Len(response.powers) :
           AttemptsFor(response.powers[k].id) =
             IF DateDiff(response.powers[k].end_date, response.today) \in {7, 3, 1}
             THEN 1 ELSE 0
      /\ \A k \in 1..Len(response.attempts) :
           \E j \in 1..Len(response.powers) :
             response.powers[j].id = response.attempts[k].id

\* a tick that read a row 7 days from expiry (one dispatch) together with a
\* row that is on no threshold (no dispatch)
C1_Witness ==
    /\ TickDone
    /\ \E j, k \in 1..Len(response.powers) :
         /\ DateDiff(response.powers[j].end_date, response.today) = 7
         /\ AttemptsFor(response.powers[j].id) = 1
         /\ DateDiff(response.powers[k].end_date, response.today) \notin {7, 3, 1}
         /\ AttemptsFor(response.powers[k].id) = 0

\* the step is the return of trigger t's pending dispatch
SendReturned(t) == scan[t].pc = "sending" /\ scan'[t] # scan[t]

\* the dispatch that step recorded
LastAttempt(t) ==
    LET att == IF scan'[t].pc = "sending" THEN scan'[t].attempts
               ELSE response'.attempts
    IN  att[Len(att)]

\* C2: a step sets a row's notification_sent only when it is the return of a
\* successful dispatch for that row, and the return of a failed dispatch
\* leaves the table as it was.
C2_MarkOnlyAfterSuccess ==
    [][ /\ \A t \in Triggers :
             (SendReturned(t) /\ ~LastAttempt(t).sent)
                => powers_of_attorney' = powers_of_attorney
        /\ \A r \in powers_of_attorney, q \in powers_of_attorney' :
             (r.id = q.id /\ ~r.notification_sent /\ q.notification_sent)
                => \E t \in Triggers :
                     /\ SendReturned(t)
                     /\ scan[t].powers[scan[t].i].id = r.id
                     /\ LastAttempt(t).sent
      ]_vars

\* the row with this id, as the table holds it now
Stored(id) == { r \in powers_of_attorney : r.id = id }

\* a tick ended in which one dispatch failed and its row is still unmarked,
\* and another succeeded and its row is marked
C2_Witness ==
    /\ TickDone
    /\ \E a, b \in 1..Len(response.attempts) :
         /\ ~response.attempts[a].sent
         /\ \E r \in Stored(response.attempts[a].id) : ~r.notification_sent
         /\ response.attempts[b].sent
         /\ \E r \in Stored(response.attempts[b].id) : r.notification_sent

\* the row with this id, as the ended tick read it
Snapshot(id) ==
    { response.powers[k] : k \in { j \in 1..Len(response.powers) :
                                     response.powers[j].id = id } }

\* some dispatch for row id was accepted by Telegram
Delivered(id) == \E m \in BagToSet(telegram) : m.message.id = id

\* the ended tick went through its whole batch: every row on a threshold was
\* dispatched; and a row whose dispatch failed was not marked by this tick
\* (it is marked only if it was already, or if some dispatch for it succeeded)
BatchCompleted ==
    /\ \A k \in 1..Len(response.powers) :
         DateDiff(response.powers[k].end_date, response.today) \in {7, 3, 1}
            => AttemptsFor(response.powers[k].id) = 1
    /\ \A a \in 1..Len(response.attempts) :
         ~response.attempts[a].sent
            => \A r \in Stored(response.attempts[a].id) :
                 r.notification_sent
                    => \/ \E q \in Snapshot(r.id) : q.notification_sent
                       \/ Delivered(r.id)

\* C3 as stated: when a tick ends in which the dispatch failed for A and
\* succeeded for B, B is marked, A is not, and the batch was completed.
C3_BatchResilience ==
    TickDone =>
      /\ BatchCompleted
      /\ \A a, b \in 1..Len(response.attempts) :
           (~response.attempts[a].sent /\ response.attempts[b].sent)
              => \A r \in Stored(response.attempts[b].id) : r.notification_sent

\* C3 as amended: B is marked when the UPDATE that marks it succeeded; a
\* failed UPDATE leaves B unmarked and the batch still completes.
C3_BatchResilienceAmended ==
    TickDone =>
      /\ BatchCompleted
      /\ \A a, b \in 1..Len(response.attempts) :
           (~response.attempts[a].sent /\ response.attempts[b].sent)
              => \A r \in Stored(response.attempts[b].id) :
                   response.attempts[b].marked => r.notification_sent

\* a tick ended in which the first dispatch failed and a later one succeeded:
\* the later row is marked, the earlier one is not
C3_Witness ==
    /\ TickDone
    /\ Len(response.attempts) = 2
    /\ ~response.attempts[1].sent
    /\ response.attempts[2].sent /\ response.attempts[2].marked
    /\ \E r \in Stored(response.attempts[1].id) : ~r.notification_sent
    /\ \E r \in Stored(response.attempts[2].id) : r.notification_sent

\* C4: a scheduled and a manual scan that overlap never both have a dispatch
\* under way for the same row.
C4_NoDoubleDispatch ==
    ~ /\ scan["scheduled"].pc = "sending"
      /\ scan["manual"].pc = "sending"
      /\ scan["scheduled"].today = scan["manual"].today
      /\ scan["scheduled"].powers[scan["scheduled"].i].id
           = scan["manual"].powers[scan["manual"].i].id

\* the notifications delivered for row id, with how often each was delivered
DeliveredTo(id) == { m \in BagToSet(telegram) : m.message.id = id }

RECURSIVE Copies(_)
\* the number of deliveries in a set of delivered notifications
Copies(ms) ==
    IF ms = {} THEN 0
    ELSE LET m == CHOOSE x \in ms : TRUE IN CopiesIn(m, telegram) + Copies(ms \ {m})

\* C5: over a row's lifetime at most 3 notifications are delivered for it, at
\* most one per threshold, and no two on the same calendar day.
C5_OncePerThreshold ==
    \A id \in 1..MaxId :
      /\ Copies(DeliveredTo(id)) <= 3
      /\ \A d \in {7, 3, 1} :
           Copies({ m \in DeliveredTo(id) : m.message.days_left = d }) <= 1
      /\ \A m \in DeliveredTo(id) :
           Copies({ x \in DeliveredTo(id) : x.day = m.day }) <= 1

\* C6 as stated: DELETE with an id that is not stored answers 404 and leaves
\* the table as it was; with a stored id it removes that row and no other.
C6_Delete ==
    [][ response'.op = "delete_power" =>
          IF Stored(response'.id) = {}
          THEN response'.status = 404 /\ powers_of_attorney' = powers_of_attorney
          ELSE powers_of_attorney' = powers_of_attorney \ Stored(response'.id)
      ]_vars

\* C6 as amended: that holds when the database calls succeed; when they
\* raise, the answer is 500 and the table is left as it was.
C6_DeleteAmended ==
    [][ response'.op = "delete_power" =>
          IF response'.status = 500
          THEN powers_of_attorney' = powers_of_attorney
          ELSE IF Stored(response'.id) = {}
          THEN response'.status = 404 /\ powers_of_attorney' = powers_of_attorney
          ELSE /\ response'.status = 200
               /\ powers_of_attorney' = powers_of_attorney \ Stored(response'.id)
      ]_vars

\* a DELETE was answered 404 while other rows are stored
C6_Witness ==
    /\ response.op = "delete_power"
    /\ response.status = 404
    /\ powers_of_attorney # {}

\* GET /api/powers/ answered with the list of rows
Listed == response.op = "get_powers" /\ ~response.error

\* C7: the list holds every stored row once, in ascending end_date order, and
\* rows with equal end_date in the order they were inserted (ascending id).
C7_SortedStable ==
    Listed =>
      /\ Len(response.result) = Cardinality(powers_of_attorney)
      /\ \A r \in powers_of_attorney :
           \E k \in 1..Len(response.result) : response.result[k].id = r.id
      /\ \A a, b \in 1..Len(response.result) :
           a < b =>
             LET ea == ToOrdinal(Strptime(response.result[a].end_date))
                 eb == ToOrdinal(Strptime(response.result[b].end_date))
             IN  ea < eb \/ (ea = eb /\ response.result[a].id < response.result[b].id)

RECURSIVE StepsBetween(_, _)
\* the number of midnights from day a to a later (or equal) day b
StepsBetween(a, b) == IF a = b THEN 0 ELSE 1 + StepsBetween(Tomorrow(a), b)

\* whole days from today to day dt, negative when dt is in the past
WholeDaysFromToday(dt) ==
    IF ToOrdinal(dt) >= ToOrdinal(today) THEN StepsBetween(today, dt)
    ELSE 0 - StepsBetween(dt, today)

\* C8: every listed row's days_remaining is the number of whole days from today
\* to its end_date: 0 today, negative in the past, positive in the future.
C8_DaysRemaining ==
    Listed =>
      \A k \in 1..Len(response.result) :
        \E r \in Stored(response.result[k].id) :
          /\ response.result[k].days_remaining = WholeDaysFromToday(r.end_date)
          /\ (r.end_date = today) => response.result[k].days_remaining = 0
          /\ (ToOrdinal(r.end_date) < ToOrdinal(today))
                => response.result[k].days_remaining < 0
          /\ (ToOrdinal(r.end_date) > ToOrdinal(today))
                => response.result[k].days_remaining > 0

\* a list with a row that expired and a row that expires today
C8_Witness ==
    /\ Listed
    /\ \E a, b \in 1..Len(response.result) :
         /\ response.result[a].days_remaining < 0
         /\ response.result[b].days_remaining = 0

\* the string is YYYY-MM-DD, zero-padded, and names a day of the calendar
WellFormedDate(s) ==
    /\ Len(s) = 10
    /\ s[5] = "-" /\ s[8] = "-"
    /\ \A i \in {1, 2, 3, 4, 6, 7, 9, 10} : IsDigit(s[i])
    /\ LET y == Number(SubSeq(s, 1, 4))
           m == Number(SubSeq(s, 6, 7))
           d == Number(SubSeq(s, 9, 10))
       IN  y >= 1 /\ m \in 1..12 /\ d >= 1 /\ d <= DaysInMonth(y, m)

\* C9: a POST whose end_date is not a well-formed YYYY-MM-DD date is answered
\* 400 and inserts nothing; a POST answered 500 inserts nothing.
C9_MalformedRejected ==
    [][ response'.op = "create_power" =>
          /\ ~WellFormedDate(response'.end_date)
                => /\ response'.status = 400
                   /\ powers_of_attorney' = powers_of_attorney
          /\ response'.status = 500 => powers_of_attorney' = powers_of_attorney
      ]_vars

\* C10: a successful create has added one row with a fresh id, start_date
\* today, notification_sent false and the submitted end_date, which the list
\* shows as the very string that was submitted.
C10_CreateRoundTrip ==
    (response.op = "create_power" /\ response.status = 200) =>
      /\ Cardinality(Stored(response.id)) = 1
      /\ response.id = id_seq
      /\ \A r \in powers_of_attorney : r.id <= id_seq
      /\ \A r \in Stored(response.id) :
           /\ r.start_date = today
           /\ ~r.notification_sent
           /\ PowerDict(r).end_date = response.end_date

\* C11: once init_database has run with a connection to a database, the
\* table powers_of_attorney exists (it was created if it was absent).
C11_InitCreatesTable ==
    (response.op = "init_database" /\ response.connected) => table_exists

\* C12: every dispatch of a tick goes to the row's own telegram_chat_id when
\* the row has one and to TELEGRAM_CHAT_ID when the row's is NULL; no dispatch
\* is made with a target of None.
C12_NotifyTarget ==
    TickDone =>
      \A a \in 1..Len(response.attempts) :
        /\ response.attempts[a].chat_id # None
        /\ \A r \in Snapshot(response.attempts[a].id) :
             response.attempts[a].chat_id =
               IF r.telegram_chat_id = None THEN TELEGRAM_CHAT_ID
               ELSE r.telegram_chat_id

\* every row the ended tick read on a threshold day was dispatched once
WholeBatchDispatched ==
    \A k \in 1..Len(response.powers) :
      DateDiff(response.powers[k].end_date, response.today) \in {7, 3, 1}
         => AttemptsFor(response.powers[k].id) = 1

\* C13: when in a tick the UPDATE that marks a row fails after its dispatch
\* succeeded, the tick still dispatches every threshold row it read, and every
\* later row whose dispatch and UPDATE both succeed is marked when the tick
\* ends.
C13_WriteFailureContained ==
    TickDone =>
      \A a \in 1..Len(response.attempts) :
        (response.attempts[a].sent /\ ~response.attempts[a].marked)
           => /\ WholeBatchDispatched
              /\ \A b \in (a + 1)..Len(response.attempts) :
                   response.attempts[b].marked
                      => \A r \in Stored(response.attempts[b].id) :
                           r.notification_sent

\* a tick ended in which the first row's dispatch succeeded but its UPDATE
\* failed (the row is unmarked) and the second row was dispatched and marked
C13_Witness ==
    /\ TickDone
    /\ Len(response.attempts) = 2
    /\ response.attempts[1].sent /\ ~response.attempts[1].marked
    /\ response.attempts[2].sent /\ response.attempts[2].marked
    /\ \E r \in Stored(response.attempts[1].id) : ~r.notification_sent
    /\ \E r \in Stored(response.attempts[2].id) : r.notification_sent

\* C14: GET /api/health whose database check failed does not report the
\* overall status as healthy.
C14_HealthDegraded ==
    (response.op = "health_check" /\ response.database # "healthy")
       => response.status # "healthy"

\* the row whose dispatch is pending for trigger t
Pending(t) == scan[t].powers[scan[t].i]

\* C15: no step turns a stored row's notification_sent from true to false,
\* and the UPDATE of a row that is already marked leaves the table as it was.
C15_Monotonic ==
    [][ /\ \A r \in powers_of_attorney, q \in powers_of_attorney' :
             (r.id = q.id /\ r.notification_sent) => q.notification_sent
        /\ \A t \in Triggers :
             ( /\ SendReturned(t)
               /\ LastAttempt(t).marked
               /\ \A r \in Stored(Pending(t).id) : r.notification_sent )
                => powers_of_attorney' = powers_of_attorney
      ]_vars

\* a tick ended that dispatched and marked a row it had read as already
\* marked; the row is still marked
C15_Witness ==
    /\ TickDone
    /\ \E a \in 1..Len(response.attempts) :
         /\ response.attempts[a].marked
         /\ \E q \in Snapshot(response.attempts[a].id) : q.notification_sent
         /\ \E r \in Stored(response.attempts[a].id) : r.notification_sent

\* a row with its notification_sent left out of account
EraseFlag(r) == [r EXCEPT !.notification_sent = FALSE]

\* the ids a tick dispatches for, worked out from the rows without their flags
ExpectedDispatches(rows, day) ==
    { r.id : r \in { x \in { EraseFlag(y) : y \in rows } :
                       DateDiff(x.end_date, day) \in {7, 3, 1} } }

\* C16: the rows a tick dispatches for are determined by the rows it read with
\* notification_sent left out of account (so two tables that differ only in
\* that flag get the same dispatches); a row read as already marked is
\* dispatched on a threshold day like any other.
C16_FlagNotConsulted ==
    TickDone =>
      /\ { response.attempts[a].id : a \in 1..Len(response.attempts) }
            = ExpectedDispatches({ response.powers[k] :
                                     k \in 1..Len(response.powers) },
                                 response.today)
      /\ \A k \in 1..Len(response.powers) :
           ( /\ response.powers[k].notification_sent
             /\ DateDiff(response.powers[k].end_date, response.today) \in {7, 3, 1} )
              => AttemptsFor(response.powers[k].id) = 1

\* a tick ended that read a row already marked, 3 days or 1 day from expiry,
\* and dispatched for it
C16_Witness ==
    /\ TickDone
    /\ \E k \in 1..Len(response.powers) :
         /\ response.powers[k].notification_sent
         /\ DateDiff(response.powers[k].end_date, response.today) \in {3, 1}
         /\ AttemptsFor(response.powers[k].id) = 1

\* a dispatch for row id failed on a day before the ended tick's day
FailedEarlier(id) ==
    \E f \in failures :
      f.id = id /\ ToOrdinal(f.day) < ToOrdinal(response.today)

\* C17: a tick dispatches at most once for each row it read, also when the
\* dispatch fails; a row whose dispatch failed on an earlier day is dispatched
\* again only on a day on which its days_left is a threshold.
C17_NoRetry ==
    TickDone =>
      /\ \A k \in 1..Len(response.powers) :
           AttemptsFor(response.powers[k].id) <= 1
      /\ \A k \in 1..Len(response.powers) :
           ( /\ FailedEarlier(response.powers[k].id)
             /\ DateDiff(response.powers[k].end_date, response.today)
                   \notin {7, 3, 1} )
              => AttemptsFor(response.powers[k].id) = 0

\* a tick ended with one failed dispatch for a row, and it read a row whose
\* dispatch had failed the day before, which got no dispatch and has had no
\* delivery
C17_Witness ==
    /\ TickDone
    /\ \E a \in 1..Len(response.attempts) :
         /\ ~response.attempts[a].sent
         /\ AttemptsFor(response.attempts[a].id) = 1
    /\ \E k \in 1..Len(response.powers) :
         /\ FailedEarlier(response.powers[k].id)
         /\ AttemptsFor(response.powers[k].id) = 0
         /\ ~Delivered(response.powers[k].id)

\* the ids of the rows of a table
Ids(table) == { r.id : r \in table }

\* C18: a step leaves every column of a stored row but notification_sent as
\* it was, and that flag changes only from false to true in the return of a
\* dispatch; the table changes only by a create that adds one row with a new
\* id, a delete that removes rows, or that marking; get_powers and
\* health_check change nothing that is stored.
C18_Frame ==
    [][ /\ \A r \in powers_of_attorney, q \in powers_of_attorney' :
             r.id = q.id =>
               /\ [q EXCEPT !.notification_sent = r.notification_sent] = r
               /\ q # r => /\ ~r.notification_sent /\ q.notification_sent
                           /\ \E t \in Triggers :
                                SendReturned(t) /\ Pending(t).id = r.id
        /\ powers_of_attorney' # powers_of_attorney =>
             \/ /\ response'.op = "create_power" /\ response'.status = 200
                /\ response'.id \notin Ids(powers_of_attorney)
                /\ powers_of_attorney \subseteq powers_of_attorney'
                /\ Ids(powers_of_attorney') = Ids(powers_of_attorney) \cup {response'.id}
             \/ /\ response'.op = "delete_power" /\ response'.status = 200
                /\ powers_of_attorney' = powers_of_attorney \ Stored(response'.id)
             \/ /\ \E t \in Triggers : SendReturned(t)
                /\ Ids(powers_of_attorney') = Ids(powers_of_attorney)
        /\ response'.op \in {"get_powers", "health_check"} =>
             /\ powers_of_attorney' = powers_of_attorney
             /\ id_seq' = id_seq
             /\ table_exists' = table_exists
             /\ telegram' = telegram
      ]_vars

\* two rows were created, one was deleted and a tick has marked the other
C18_Witness ==
    /\ TickDone
    /\ id_seq = 2
    /\ Cardinality(powers_of_attorney) = 1
    /\ \E a \in 1..Len(response.attempts) :
         /\ response.attempts[a].marked
         /\ \E q \in Snapshot(response.attempts[a].id) : ~q.notification_sent
         /\ \E r \in Stored(response.attempts[a].id) : r.notification_sent

\* C19: every stored row with notification_sent true has had a dispatch
\* delivered for it (the converse need not hold).
C19_FlagImpliesDelivery ==
    \A r \in powers_of_attorney : r.notification_sent => Delivered(r.id)

\* a marked row with its delivery, next to a row that has had a delivery and
\* is not marked (its UPDATE failed)
C19_Witness ==
    \E r, q \in powers_of_attorney :
      /\ r.notification_sent /\ Delivered(r.id)
      /\ ~q.notification_sent /\ Delivered(q.id)

\* C20: when the dispatch returns for a row that has been deleted since the
\* tick read it, the step leaves the table as it was (no row comes back, no
\* other row is altered), and the tick still dispatches every threshold row
\* it read, deleted or not.
C20_DeletedDuringScan ==
    [][ /\ \A t \in Triggers :
             (SendReturned(t) /\ Stored(Pending(t).id) = {})
                => powers_of_attorney' = powers_of_attorney
        /\ TickDone' => WholeBatchDispatched'
      ]_vars

\* a tick ended whose second dispatch was delivered, and its UPDATE went
\* through, for a row that is no longer stored, while the first row is
\* stored unaltered
C20_Witness ==
    /\ TickDone
    /\ Len(response.attempts) = 2
    /\ ~response.attempts[1].sent
    /\ response.attempts[2].sent /\ response.attempts[2].marked
    /\ Stored(response.attempts[2].id) = {}
    /\ Delivered(response.attempts[2].id)
    /\ Stored(response.attempts[1].id) = Snapshot(response.attempts[1].id)
    /\ Stored(response.attempts[1].id) # {}

\* C21: a tick whose read of the active rows failed ends with no dispatch and
\* leaves the table, the deliveries and the other scan as they were; and the
\* manual trigger answers with its success status however the tick went
\* (read failed, dispatches failed, nothing on a threshold).
C21_ReadFailureContained ==
    [][ response'.op = "check_expiring_powers" =>
          /\ response'.trigger = "manual" => response'.status = 200
          /\ response'.read = "failed" =>
               /\ response'.attempts = << >>
               /\ powers_of_attorney' = powers_of_attorney
               /\ telegram' = telegram
               /\ failures' = failures
               /\ scan'[response'.trigger].pc = "idle"
               /\ \A t \in Triggers \ {response'.trigger} : scan'[t] = scan[t]
      ]_vars

\* the manual trigger answered 200 for a tick whose read failed while a row
\* on a threshold day is stored, unmarked and without a delivery
C21_Witness ==
    /\ TickDone
    /\ response.trigger = "manual" /\ response.status = 200
    /\ response.read = "failed"
    /\ \E r \in powers_of_attorney :
         /\ DateDiff(r.end_date, today) \in {7, 3, 1}
         /\ ~r.notification_sent /\ ~Delivered(r.id)

====
